---- MODULE Spec2Model ----
(***************************************************************************)
(* Model of DuplicateDetectorBot (bot.py): the in-memory duplicate         *)
(* histories, the SQLite backup table, the handler detect_duplicate and    *)
(* the startup rehydration load_from_database.                             *)
(*                                                                         *)
(* Texts are sequences of one-character strings.  A timestamp string       *)
(* 'YYYY-MM-DD HH:MM:SS' is modelled by the number of seconds it denotes:  *)
(* the format is fixed-width, so the order of the strings (the order       *)
(* SQLite compares them in) is the order of these numbers.  The variable   *)
(* now is the UTC clock in seconds; format_time_for_db stamps the          *)
(* Asia/Jakarta wall clock (UTC+7), SQLite's datetime("now") reads UTC.    *)
(*                                                                         *)
(* A History entry carries the field uid, the sender's numeric id.  The    *)
(* code does not store it in memory (it stores only the display name); no  *)
(* operator of the handler reads it, it only lets the properties say who   *)
(* sent an entry.  The variable last records the update handled last and   *)
(* what the handler did with it: the path taken, the reports handed to     *)
(* reply_text, whether the handler raised, and how the INSERT and the      *)
(* DELETE ended, the timestamp it stamped (stamp) and, when it skipped the  *)
(* update, the timestamp of the entry it compared with (since).            *)
(* rehydrated is the table as read by the last startup.                    *)
(* md5 is modelled as injective on the normalised text.                    *)
(***************************************************************************)
EXTENDS Integers, Sequences, FiniteSets, TLC

VARIABLES group_messages, messages, now, last, rehydrated, nev, nticks, nrestarts

vars == <<group_messages, messages, now, last, rehydrated, nev, nticks, nrestarts>>

(* ------------------------------ bounds --------------------------------- *)

MaxEvents == 2
MaxTicks == 1
MaxRestarts == 1
MaxEventsWho == 2
MaxTicksWho == 2
MaxEventsCap == 12
MaxRestartsCap == 1

(* ------------------------- program constants --------------------------- *)

MinTextLen == 3
SuppressWindow == 300
HistoryCap == 10
PreviewLen == 50
RetentionSeconds == 2592000
JakartaOffset == 25200

(* ------------------------------ inputs --------------------------------- *)

Alice1 == [id |-> 1, first_name |-> "Alice"]
Bob2 == [id |-> 2, first_name |-> "Bob"]
NoUser == [absent |-> TRUE]

Chats == {100, 200}
Users == {Alice1, Bob2}
Texts ==
  { << >>,
    <<" ", "a", "b", " ">>,
    <<"a", "b", "c">>,
    <<" ", "A", "b", "c", " ">>,
    <<"a", " ", "b">>,
    <<"a", " ", " ", "b">> }
Deltas == {SuppressWindow}
Events == [chat_id : Chats, text : Texts, from_user : Users]

WhoChats == {100}
WhoUsers == [id : {1, 2}, first_name : {"Alice", "Bob"}] \cup {NoUser}
WhoTexts == { <<"A", "b", "c">> }
WhoDeltas == {1, SuppressWindow - 1, RetentionSeconds}
WhoEvents == [chat_id : WhoChats, text : WhoTexts, from_user : WhoUsers]

CapChats == {100}
CapUsers == {Alice1}
CapTexts == { <<"a", "b", "c">> }
CapDeltas == {SuppressWindow - 1, SuppressWindow}
CapEvents == [chat_id : CapChats, text : CapTexts, from_user : CapUsers]

(* --------------------------- text helpers ------------------------------ *)

IsSpace(c) == c = " "

RECURSIVE LStrip(_)
LStrip(t) ==
  IF t = << >> THEN << >>
  ELSE IF IsSpace(Head(t)) THEN LStrip(Tail(t)) ELSE t

RECURSIVE RStrip(_)
RStrip(t) ==
  IF t = << >> THEN << >>
  ELSE IF IsSpace(t[Len(t)]) THEN RStrip(SubSeq(t, 1, Len(t) - 1)) ELSE t

Strip(t) == RStrip(LStrip(t))

LowerChar(c) == IF c = "A" THEN "a" ELSE c

Lower(t) == [i \in 1..Len(t) |-> LowerChar(t[i])]

RECURSIVE Split(_)
Split(t) ==
  LET s == LStrip(t) IN
  IF s = << >> THEN << >>
  ELSE LET n == CHOOSE k \in 1..Len(s) :
                  /\ \A i \in 1..k : ~IsSpace(s[i])
                  /\ (k = Len(s) \/ IsSpace(s[k + 1]))
       IN <<SubSeq(s, 1, n)>> \o Split(SubSeq(s, n + 1, Len(s)))

RECURSIVE JoinWithSpace(_)
JoinWithSpace(words) ==
  IF words = << >> THEN << >>
  ELSE IF Len(words) = 1 THEN words[1]
  ELSE words[1] \o <<" ">> \o JoinWithSpace(Tail(words))

Md5(t) == [md5 |-> t]

generate_message_hash(text) == Md5(JoinWithSpace(Split(Lower(text))))

(* --------------------------- time helpers ------------------------------ *)

format_time_for_db(clock) == clock + JakartaOffset

format_time_display(dt_str) == [wib |-> dt_str]

SqliteNowMinus30Days(clock) == clock - RetentionSeconds

(* --------------------------- backup table ------------------------------ *)

Row(chat_id, text, user_id, user, time_now) ==
  [chat_id |-> chat_id, message_hash |-> generate_message_hash(text),
   message_text |-> text, user_id |-> user_id, user_name |-> user,
   timestamp |-> time_now]

UniqueViolationNoTimestamp(table, row) ==
  \E i \in 1..Len(table) :
    /\ table[i].chat_id = row.chat_id
    /\ table[i].message_hash = row.message_hash

UniqueViolation(table, row) ==
  \E i \in 1..Len(table) :
    /\ table[i].chat_id = row.chat_id
    /\ table[i].message_hash = row.message_hash
    /\ table[i].timestamp = row.timestamp

InsertOutcome(table, row, io_error) ==
  IF io_error THEN "ioerror"
  ELSE IF UniqueViolation(table, row) THEN "integrity"
  ELSE "ok"

Insert(table, row, outcome) ==
  IF outcome = "ok" THEN Append(table, row) ELSE table

HandlerAbortsOnWriteError(outcome) == outcome = "ok"

HandlerContinuesAfterInsert(outcome) == outcome \in {"ok", "integrity", "ioerror"}

DeleteOld(table, clock) ==
  SelectSeq(table, LAMBDA r : ~(r.timestamp < SqliteNowMinus30Days(clock)))

RECURSIVE InsertSorted(_, _)
InsertSorted(sorted, r) ==
  IF sorted = << >> THEN <<r>>
  ELSE IF r.timestamp < Head(sorted).timestamp THEN <<r>> \o sorted
  ELSE <<Head(sorted)>> \o InsertSorted(Tail(sorted), r)

RECURSIVE OrderByTimestamp(_)
OrderByTimestamp(table) ==
  IF table = << >> THEN << >>
  ELSE InsertSorted(OrderByTimestamp(SubSeq(table, 1, Len(table) - 1)),
                    table[Len(table)])

(* ------------------------- in-memory structure ------------------------- *)

EmptyDict == << >>

HasChat(gm, chat_id) == chat_id \in DOMAIN gm

HasKey(gm, chat_id, key) == HasChat(gm, chat_id) /\ key \in DOMAIN gm[chat_id]

SetDefaultChat(gm, chat_id) ==
  IF chat_id \in DOMAIN gm THEN gm ELSE (chat_id :> EmptyDict) @@ gm

SetHistoryAllChats(gm, chat_id, key, history) ==
  [c \in DOMAIN gm |-> (key :> history) @@ gm[c]]

SetHistory(gm, chat_id, key, history) ==
  (chat_id :> ((key :> history) @@ gm[chat_id])) @@ gm

LoadedEntry(r) == [user |-> r.user_name, time |-> r.timestamp, uid |-> r.user_id]

RECURSIVE LoadRows(_, _)
LoadRows(rows, gm) ==
  IF rows = << >> THEN gm
  ELSE LET r  == Head(rows)
           g1 == SetDefaultChat(gm, r.chat_id)
           h  == IF r.message_text \in DOMAIN g1[r.chat_id]
                 THEN g1[r.chat_id][r.message_text] ELSE << >>
       IN LoadRows(Tail(rows),
                   SetHistory(g1, r.chat_id, r.message_text,
                              Append(h, LoadedEntry(r))))

load_from_database(table) == LoadRows(OrderByTimestamp(table), EmptyDict)

(* ----------------------------- the handler ----------------------------- *)

UserDisplay(from_user) ==
  IF from_user.first_name = "" THEN ToString(from_user.id)
  ELSE from_user.first_name

TooShortOffByOne(text) == Len(text) < MinTextLen - 1

TooShort(text) == Len(text) < MinTextLen

NewEntry(user, uid, time_now, text) ==
  [user |-> user, time |-> time_now, original_text |-> text, uid |-> uid]

FirstHistoryForgotten(user, uid, time_now, text) == << >>

FirstHistory(user, uid, time_now, text) ==
  <<NewEntry(user, uid, time_now, text)>>

SameUser(last_entry, user) == last_entry.user = user

WithinWindowInclusive(last_time, current_time) ==
  current_time - last_time <= SuppressWindow

WithinWindow(last_time, current_time) ==
  current_time - last_time < SuppressWindow

ShouldSkip(history, user, time_now) ==
  /\ history # << >>
  /\ SameUser(history[Len(history)], user)
  /\ WithinWindow(history[Len(history)].time, time_now)

FirstTen(history) ==
  IF Len(history) > HistoryCap THEN SubSeq(history, 1, HistoryCap) ELSE history

LastEleven(history) ==
  IF Len(history) > HistoryCap + 1
  THEN SubSeq(history, Len(history) - HistoryCap, Len(history))
  ELSE history

LastTen(history) ==
  IF Len(history) > HistoryCap
  THEN SubSeq(history, Len(history) - HistoryCap + 1, Len(history))
  ELSE history

LabelZeroBased(i, n) ==
  IF i = 1 THEN [tag |-> "PERTAMA KALI"]
  ELSE IF i = n THEN [tag |-> "SAAT INI"]
  ELSE [tag |-> "KE", n |-> i - 1]

Label(i, n) ==
  IF i = 1 THEN [tag |-> "PERTAMA KALI"]
  ELSE IF i = n THEN [tag |-> "SAAT INI"]
  ELSE [tag |-> "KE", n |-> i]

Preview(item, text) ==
  IF "original_text" \in DOMAIN item /\ item.original_text # text
  THEN <<SubSeq(item.original_text, 1,
                IF Len(item.original_text) < PreviewLen
                THEN Len(item.original_text) ELSE PreviewLen)>>
  ELSE << >>

Block(history, i, text) ==
  [label |-> Label(i, Len(history)),
   user |-> history[i].user,
   time |-> format_time_display(history[i].time),
   preview |-> Preview(history[i], text)]

BuildReport(text, history) ==
  [nomor |-> text,
   blocks |-> [i \in 1..Len(history) |-> Block(history, i, text)],
   total |-> Len(history)]

Result(gm, table, kind, replies, failed, insert, prune) ==
  [group_messages |-> gm, messages |-> table, kind |-> kind,
   replies |-> replies, failed |-> failed, insert |-> insert, prune |-> prune]

detect_duplicate(gm, table, clock, ev, insert_io, reply_raises, prune_io) ==
  IF ev.text = << >> THEN
    Result(gm, table, "ignored", << >>, FALSE, "none", "none")
  ELSE IF ev.from_user = NoUser THEN
    Result(gm, table, "error", << >>, TRUE, "none", "none")
  ELSE
    LET chat_id    == ev.chat_id
        text       == Strip(ev.text)
        text_lower == Lower(text)
        user       == UserDisplay(ev.from_user)
        user_id    == ev.from_user.id
        time_now   == format_time_for_db(clock)
    IN
    IF TooShort(text) THEN
      Result(gm, table, "ignored", << >>, FALSE, "none", "none")
    ELSE
      LET gm1     == SetDefaultChat(gm, chat_id)
          row     == Row(chat_id, text, user_id, user, time_now)
          outcome == InsertOutcome(table, row, insert_io)
          table1  == Insert(table, row, outcome)
      IN
      IF ~HandlerContinuesAfterInsert(outcome) THEN
        Result(gm1, table1, "error", << >>, TRUE, outcome, "none")
      ELSE IF text_lower \notin DOMAIN gm1[chat_id] THEN
        Result(SetHistory(gm1, chat_id, text_lower,
                          FirstHistory(user, user_id, time_now, text)),
               table1, "first", << >>, FALSE, outcome, "none")
      ELSE
        LET history == gm1[chat_id][text_lower] IN
        IF ShouldSkip(history, user, time_now) THEN
          Result(gm1, table1, "suppressed", << >>, FALSE, outcome, "none")
        ELSE
          LET history2 == LastTen(Append(history,
                                         NewEntry(user, user_id, time_now, text)))
              gm2      == SetHistory(gm1, chat_id, text_lower, history2)
              reply    == [chat_id |-> chat_id,
                           report |-> BuildReport(text, history2)]
          IN
          IF reply_raises THEN
            Result(gm2, table1, "duplicate", <<reply>>, TRUE, outcome, "none")
          ELSE IF prune_io THEN
            Result(gm2, table1, "duplicate", <<reply>>, FALSE, outcome, "ioerror")
          ELSE
            Result(gm2, DeleteOld(table1, clock), "duplicate", <<reply>>, FALSE,
                   outcome, "ok")

(* ------------------------------ actions -------------------------------- *)

NoEvent == [kind |-> "none"]

Init ==
  /\ messages = << >>
  /\ group_messages = load_from_database(messages)
  /\ now = 0
  /\ last = NoEvent
  /\ rehydrated = messages
  /\ nev = 0
  /\ nticks = 0
  /\ nrestarts = 0

ComparedWith(ev, r) ==
  IF r.kind = "suppressed"
  THEN LET history == group_messages[ev.chat_id][Lower(Strip(ev.text))]
       IN <<history[Len(history)].time>>
  ELSE << >>

Observed(ev, r) ==
  [kind |-> r.kind, ev |-> ev, replies |-> r.replies, failed |-> r.failed,
   insert |-> r.insert, prune |-> r.prune,
   stamp |-> format_time_for_db(now), since |-> ComparedWith(ev, r)]

Handle(ev, insert_io, reply_raises, prune_io) ==
  LET r == detect_duplicate(group_messages, messages, now, ev,
                            insert_io, reply_raises, prune_io)
  IN /\ group_messages' = r.group_messages
     /\ messages' = r.messages
     /\ last' = Observed(ev, r)
     /\ nev' = nev + 1
     /\ UNCHANGED <<now, rehydrated, nticks, nrestarts>>

Message ==
  /\ nev < MaxEvents
  /\ \E ev \in Events : Handle(ev, FALSE, FALSE, FALSE)

Tick ==
  /\ nticks < MaxTicks
  /\ \E d \in Deltas : now' = now + d
  /\ nticks' = nticks + 1
  /\ UNCHANGED <<group_messages, messages, last, rehydrated, nev, nrestarts>>

Restart ==
  /\ nrestarts < MaxRestarts
  /\ group_messages' = load_from_database(messages)
  /\ rehydrated' = messages
  /\ nrestarts' = nrestarts + 1
  /\ UNCHANGED <<messages, now, last, nev, nticks>>

Next == Message \/ Tick \/ Restart

Spec == Init /\ [][Next]_vars

MessageWho ==
  /\ nev < MaxEventsWho
  /\ \E ev \in WhoEvents : \E insert_io, reply_raises, prune_io \in BOOLEAN :
       Handle(ev, insert_io, reply_raises, prune_io)

TickWho ==
  /\ nticks < MaxTicksWho
  /\ \E d \in WhoDeltas : now' = now + d
  /\ nticks' = nticks + 1
  /\ UNCHANGED <<group_messages, messages, last, rehydrated, nev, nrestarts>>

NextWho == MessageWho \/ TickWho

SpecWho == Init /\ [][NextWho]_vars

TickCap ==
  /\ nticks < nev
  /\ \E d \in CapDeltas : now' = now + d
  /\ nticks' = nticks + 1
  /\ UNCHANGED <<group_messages, messages, last, rehydrated, nev, nrestarts>>

MessageCap ==
  /\ nev < MaxEventsCap
  /\ nticks = nev
  /\ \E ev \in CapEvents : Handle(ev, FALSE, FALSE, FALSE)

RestartCap ==
  /\ nrestarts < MaxRestartsCap
  /\ nticks = nev
  /\ group_messages' = load_from_database(messages)
  /\ rehydrated' = messages
  /\ nrestarts' = nrestarts + 1
  /\ UNCHANGED <<messages, now, last, nev, nticks>>

NextCap == MessageCap \/ TickCap

SpecCap == Init /\ [][NextCap]_vars

NextCapRestart == MessageCap \/ TickCap \/ RestartCap

SpecCapRestart == Init /\ [][NextCapRestart]_vars

(* ---------------------- vocabulary of the properties ------------------- *)

EventStep == nev' = nev + 1

KeyOf(ev) == Lower(Strip(ev.text))

Stamp == format_time_for_db(now)

Known(ev) == HasKey(group_messages, ev.chat_id, KeyOf(ev))

PriorHistory(ev) == group_messages[ev.chat_id][KeyOf(ev)]

HistoryAfter(ev) == group_messages'[ev.chat_id][KeyOf(ev)]

SightingOf(ev) ==
  NewEntry(UserDisplay(ev.from_user), ev.from_user.id, Stamp, Strip(ev.text))

LastOf(history) == history[Len(history)]

Elapsed(history) == Stamp - LastOf(history).time

FirstLabel == [tag |-> "PERTAMA KALI"]

CurrentLabel == [tag |-> "SAAT INI"]

CurrentHistory == group_messages[last.ev.chat_id][KeyOf(last.ev)]

(* ------------------------------- C1 ------------------------------------ *)

(* C1: when the History of (chat, key) holds exactly one sighting and the  *)
(* same key arrives in that chat from a different sender id, whatever the  *)
(* display names and the elapsed time, the sighting is appended and        *)
(* exactly one report is emitted: block 1 is the earlier sender labelled   *)
(* first, block 2 the new sender labelled current, and the count is 2.     *)
C1_SecondFromOtherSenderIsReported ==
  [][EventStep =>
       LET ev == last'.ev IN
       (/\ ev.from_user # NoUser
        /\ Known(ev)
        /\ Len(PriorHistory(ev)) = 1
        /\ PriorHistory(ev)[1].uid # ev.from_user.id)
       => /\ last'.kind = "duplicate"
          /\ HistoryAfter(ev) = <<PriorHistory(ev)[1], SightingOf(ev)>>
          /\ Len(last'.replies) = 1
          /\ LET report == last'.replies[1].report IN
             /\ Len(report.blocks) = 2
             /\ report.blocks[1].label = FirstLabel
             /\ report.blocks[1].user = PriorHistory(ev)[1].user
             /\ report.blocks[2].label = CurrentLabel
             /\ report.blocks[2].user = UserDisplay(ev.from_user)
             /\ report.total = 2]_vars

(* ------------------------------- C2 ------------------------------------ *)

(* C2: when the key already has a History in the chat, the last element of *)
(* that History has the same sender as the new message and fewer than 300  *)
(* seconds have elapsed since that element's timestamp, the event is       *)
(* suppressed: no reply, and the Histories are exactly what they were.     *)
C2_SameSenderWithinWindowIsSuppressed ==
  [][EventStep =>
       LET ev == last'.ev IN
       (/\ ev.from_user # NoUser
        /\ Known(ev)
        /\ LastOf(PriorHistory(ev)).uid = ev.from_user.id
        /\ Elapsed(PriorHistory(ev)) < SuppressWindow)
       => /\ last'.kind = "suppressed"
          /\ last'.replies = << >>
          /\ group_messages' = group_messages]_vars

(* ------------------------------- C3 ------------------------------------ *)

SameSenderAfterWindow(ev) ==
  /\ ev.from_user # NoUser
  /\ Known(ev)
  /\ LastOf(PriorHistory(ev)).uid = ev.from_user.id
  /\ Elapsed(PriorHistory(ev)) >= SuppressWindow

Min(a, b) == IF a < b THEN a ELSE b

(* C3 as stated: a repeat by the sender of the History's last element at   *)
(* 300 seconds or more is appended, the History grows by one and exactly   *)
(* one report is emitted.                                                  *)
C3_RepeatAfterWindowGrowsByOne ==
  [][EventStep =>
       LET ev == last'.ev IN
       SameSenderAfterWindow(ev)
       => /\ last'.kind = "duplicate"
          /\ Len(last'.replies) = 1
          /\ LastOf(HistoryAfter(ev)) = SightingOf(ev)
          /\ Len(HistoryAfter(ev)) = Len(PriorHistory(ev)) + 1]_vars

(* C3 (amended): a repeat by the sender of the History's last element at   *)
(* 300 seconds or more (exactly 300 included) is not suppressed: the       *)
(* sighting becomes the last entry, exactly one report is emitted, and the *)
(* History then holds min(previous length + 1, 10) entries, so it grows by *)
(* one only while it held fewer than 10.                                   *)
C3_RepeatAfterWindowIsReported ==
  [][EventStep =>
       LET ev == last'.ev IN
       SameSenderAfterWindow(ev)
       => /\ last'.kind = "duplicate"
          /\ Len(last'.replies) = 1
          /\ LastOf(HistoryAfter(ev)) = SightingOf(ev)
          /\ Len(HistoryAfter(ev)) =
               Min(Len(PriorHistory(ev)) + 1, HistoryCap)]_vars

C3_Witness ==
  /\ last.kind = "duplicate"
  /\ Len(last.replies) = 1
  /\ LET h == CurrentHistory IN
     /\ Len(h) = HistoryCap
     /\ h[Len(h)].uid = h[Len(h) - 1].uid
     /\ h[Len(h)].time - h[Len(h) - 1].time = SuppressWindow
     /\ messages[1].timestamp < h[1].time

(* ------------------------------- C4 ------------------------------------ *)

FirstOccurrence(ev) ==
  /\ ev.from_user # NoUser
  /\ ~TooShort(Strip(ev.text))
  /\ ~Known(ev)

(* C4: a reply is emitted only on the non-suppressed duplicate path, at    *)
(* most one per event and into the chat of the event; the first occurrence *)
(* of a key in a chat creates a History whose sole element is that         *)
(* sighting and produces no reply.                                         *)
C4_ReplyOnlyOnDuplicatePath ==
  [][EventStep =>
       LET ev == last'.ev IN
       /\ Len(last'.replies) <= 1
       /\ last'.replies # << >> =>
            /\ Known(ev)
            /\ last'.kind = "duplicate"
            /\ last'.replies[1].chat_id = ev.chat_id
       /\ FirstOccurrence(ev) =>
            /\ last'.kind = "first"
            /\ HistoryAfter(ev) = <<SightingOf(ev)>>
            /\ last'.replies = << >>]_vars

C4_Witness ==
  /\ last.kind = "first"
  /\ last.replies = << >>
  /\ Len(CurrentHistory) = 1
  /\ nev = 2
  /\ \E c \in DOMAIN group_messages :
       c # last.ev.chat_id /\ KeyOf(last.ev) \in DOMAIN group_messages[c]

(* ------------------------------- C5 ------------------------------------ *)

(* C5: a message whose text is shorter than 3 characters after trimming    *)
(* (empty and whitespace-only included) records nothing: the Histories and *)
(* the backup table are unchanged and no reply is emitted.                 *)
C5_ShortTextIsIgnored ==
  [][EventStep =>
       LET ev == last'.ev IN
       Len(Strip(ev.text)) < 3
       => /\ group_messages' = group_messages
          /\ messages' = messages
          /\ last'.replies = << >>]_vars

C5_Witness ==
  /\ last.kind = "ignored"
  /\ Len(last.ev.text) >= 3
  /\ Len(Strip(last.ev.text)) < 3
  /\ messages # << >>

(* ------------------------------- C6 ------------------------------------ *)

(* C6: after every non-suppressed append the History is the newest 10 of   *)
(* (previous History + the sighting), in insertion order; once this would  *)
(* exceed 10 entries (the 11th recorded sighting) exactly 10 remain, the   *)
(* oldest is gone from the History, and the report has one block per kept  *)
(* entry and none for the dropped one.                                     *)
C6_CapKeepsNewestTen ==
  [][EventStep =>
       LET ev == last'.ev IN
       last'.kind = "duplicate" =>
         LET full   == Append(PriorHistory(ev), SightingOf(ev))
             n      == Len(full)
             kept   == HistoryAfter(ev)
             blocks == last'.replies[1].report.blocks
         IN /\ Len(kept) = Min(n, HistoryCap)
            /\ \A i \in 1..Len(kept) : kept[i] = full[n - Len(kept) + i]
            /\ Len(blocks) = Len(kept)
            /\ \A i \in 1..Len(kept) :
                 /\ blocks[i].user = kept[i].user
                 /\ blocks[i].time = format_time_display(kept[i].time)
            /\ n > HistoryCap =>
                 \A i \in 1..Len(kept) :
                   /\ kept[i] # full[1]
                   /\ blocks[i].time # format_time_display(full[1].time)]_vars

C6_Witness ==
  /\ last.kind = "duplicate"
  /\ nrestarts = 0
  /\ nev = HistoryCap + 1
  /\ Len(CurrentHistory) = HistoryCap
  /\ Len(last.replies[1].report.blocks) = HistoryCap
  /\ messages[1].timestamp < CurrentHistory[1].time

(* ------------------------------- C7 ------------------------------------ *)

Delivered(l) == IF l.failed THEN << >> ELSE l.replies

(* C7: when the handling of an event fails with an internal error at any   *)
(* point (a failure of the reply emission included), no reply is sent and  *)
(* the Histories are exactly what they were before the event.              *)
C7_FailedEventLeavesHistories ==
  [][EventStep =>
       (last'.failed =>
          /\ Delivered(last') = << >>
          /\ group_messages' = group_messages)]_vars

(* ------------------------------- C8 ------------------------------------ *)

Listed(report, row) ==
  \E i \in 1..Len(report.blocks) :
    /\ report.blocks[i].user = row.user_name
    /\ report.blocks[i].time = format_time_display(row.timestamp)

Intact(row) == \E j \in 1..Len(messages) : messages[j] = row

(* C8: after a restart with the backup intact, a message whose key was     *)
(* sighted in that chat before the restart (and not pruned) and that is    *)
(* sent again by a different sender is handled as a duplicate, with a      *)
(* report listing the pre-restart sighting, whatever the casing.           *)
C8_RehydratedKeyIsDuplicate ==
  [][EventStep =>
       LET ev == last'.ev IN
       \A i \in 1..Len(rehydrated) :
         LET row == rehydrated[i] IN
         (/\ nrestarts > 0
          /\ ev.from_user # NoUser
          /\ Intact(row)
          /\ row.chat_id = ev.chat_id
          /\ Lower(Strip(row.message_text)) = KeyOf(ev)
          /\ row.user_id # ev.from_user.id)
         => /\ last'.kind = "duplicate"
            /\ Len(last'.replies) = 1
            /\ Listed(last'.replies[1].report, row)]_vars

(* ------------------------------- C9 ------------------------------------ *)

Age(row) == Stamp - row.timestamp

(* C9: a run of the pruning deletes every backup record more than 30 days  *)
(* older than the moment of pruning and no record 30 days old or newer,    *)
(* the age being measured on the clock that stamped the record.            *)
C9_PruneByAgeOfThirtyDays ==
  [][EventStep =>
       (last'.prune = "ok" =>
          /\ \A i \in 1..Len(messages') :
               Age(messages'[i]) <= RetentionSeconds
          /\ \A i \in 1..Len(messages) :
               Age(messages[i]) <= RetentionSeconds =>
                 \E j \in 1..Len(messages') : messages'[j] = messages[i])]_vars

(* ------------------------------- C10 ----------------------------------- *)

(* C10: a failed backup write (uniqueness violation or I/O error) does not *)
(* change the in-memory outcome of the event: the decision, the resulting  *)
(* Histories and the reply are those of the same event handled with a      *)
(* write that succeeds.                                                    *)
C10_FailedWriteKeepsOutcome ==
  [][EventStep =>
       LET ev == last'.ev IN
       last'.insert \in {"integrity", "ioerror"} =>
         LET ok == detect_duplicate(group_messages, << >>, now, ev,
                                    FALSE, FALSE, FALSE)
         IN /\ ok.insert = "ok"
            /\ ok.kind \in {"first", "suppressed", "duplicate"}
            /\ last'.kind = ok.kind
            /\ group_messages' = ok.group_messages
            /\ last'.replies = ok.replies]_vars

C10_Witness ==
  /\ last.kind = "duplicate"
  /\ last.insert = "integrity"
  /\ Len(last.replies) = 1
  /\ ~last.failed
  /\ Len(CurrentHistory) = 2

(* ------------------------------- C11 ----------------------------------- *)

OwnRow(ev) ==
  Row(ev.chat_id, Strip(ev.text), ev.from_user.id, UserDisplay(ev.from_user),
      Stamp)

SameTriple(a, b) ==
  /\ a.chat_id = b.chat_id
  /\ a.message_hash = b.message_hash
  /\ a.timestamp = b.timestamp

ReachesDuplicatePath(ev) == ev.from_user # NoUser /\ Known(ev)

(* C11 as stated: every event that reaches the duplicate path (suppressed  *)
(* or reported) leaves a record of its own raw sighting in the backup when *)
(* the store raises no I/O error, also when another sender's sighting of   *)
(* the same key in the same chat carries the same second.                  *)
C11_DuplicatePathLeavesOwnRecord ==
  [][EventStep =>
       LET ev == last'.ev IN
       (ReachesDuplicatePath(ev) /\ last'.insert # "ioerror")
       => \E j \in 1..Len(messages') : messages'[j] = OwnRow(ev)]_vars

(* C11 (amended): every event that reaches the duplicate path leaves, when *)
(* the store raises no I/O error, a record with its chat, text hash and    *)
(* timestamp in the backup, whatever the cap did: its own record when no   *)
(* record with that (chat, text hash, timestamp) existed, and otherwise    *)
(* the record that was already there, the write being skipped.             *)
C11_DuplicatePathLeavesRecordOfTriple ==
  [][EventStep =>
       LET ev == last'.ev IN
       (ReachesDuplicatePath(ev) /\ last'.insert # "ioerror")
       => /\ \E j \in 1..Len(messages') : SameTriple(messages'[j], OwnRow(ev))
          /\ (\A i \in 1..Len(messages) : ~SameTriple(messages[i], OwnRow(ev)))
               => /\ last'.insert = "ok"
                  /\ \E j \in 1..Len(messages') : messages'[j] = OwnRow(ev)
          /\ (\E i \in 1..Len(messages) : SameTriple(messages[i], OwnRow(ev)))
               => /\ last'.insert = "integrity"
                  /\ Len(messages') <= Len(messages)
                  /\ (\E j \in 1..Len(messages') : messages'[j] = OwnRow(ev))
                       => \E i \in 1..Len(messages) : messages[i] = OwnRow(ev)]_vars

C11_Witness ==
  /\ last.kind = "duplicate"
  /\ last.insert = "integrity"
  /\ Len(messages) = 1
  /\ messages[1].user_id # last.ev.from_user.id
  /\ messages[1].timestamp = last.stamp

(* ------------------------------- C12 ----------------------------------- *)

TextsSeen(chat_id) ==
  IF ~HasChat(group_messages, chat_id) THEN {}
  ELSE LET d == group_messages[chat_id] IN
       DOMAIN d \cup
       UNION { { d[k][i].original_text :
                   i \in { j \in 1..Len(d[k]) :
                             "original_text" \in DOMAIN d[k][j] } } :
               k \in DOMAIN d }

TreatedAsDuplicate(l) == l.kind \in {"duplicate", "suppressed"}

(* C12: within one chat a text is treated as a duplicate of an earlier one *)
(* (it meets that text's History) exactly when the two are equal after     *)
(* trimming leading/trailing whitespace and lowercasing: a difference in   *)
(* case or surrounding whitespace never separates them, a difference that  *)
(* survives the normalisation (internal whitespace) always does.           *)
C12_DuplicateIffEqualAfterTrimAndLower ==
  [][EventStep =>
       LET ev == last'.ev IN
       (ev.from_user # NoUser /\ ~TooShort(Strip(ev.text)))
       => (TreatedAsDuplicate(last')
             <=> \E t \in TextsSeen(ev.chat_id) :
                   Lower(Strip(t)) = Lower(Strip(ev.text)))]_vars

(* ------------------------------- C13 ----------------------------------- *)

OnlyChat(gm, chat_id) == [c \in DOMAIN gm \cap {chat_id} |-> gm[c]]

(* C13: Histories are partitioned per chat: handling an event of one chat  *)
(* creates or changes no History of another chat, its outcome is the one   *)
(* it has with every other chat's Histories removed, and a key known only  *)
(* in other chats is a first occurrence: no report, no suppression.        *)
C13_ChatsAreIndependent ==
  [][EventStep =>
       LET ev == last'.ev
           alone == detect_duplicate(OnlyChat(group_messages, ev.chat_id),
                                     messages, now, ev, FALSE, FALSE, FALSE)
       IN /\ \A c \in (DOMAIN group_messages \cup DOMAIN group_messages')
                        \ {ev.chat_id} :
               /\ c \in DOMAIN group_messages
               /\ c \in DOMAIN group_messages'
               /\ group_messages'[c] = group_messages[c]
          /\ last'.kind = alone.kind
          /\ last'.replies = alone.replies
          /\ FirstOccurrence(ev) =>
               /\ last'.kind = "first"
               /\ last'.replies = << >>]_vars

C13_Witness ==
  /\ last.kind = "first"
  /\ last.replies = << >>
  /\ DOMAIN group_messages = Chats
  /\ \A c \in Chats :
       /\ KeyOf(last.ev) \in DOMAIN group_messages[c]
       /\ Len(group_messages[c][KeyOf(last.ev)]) = 1
       /\ group_messages[c][KeyOf(last.ev)][1].uid = last.ev.from_user.id
       /\ group_messages[c][KeyOf(last.ev)][1].time = last.stamp

(* ------------------------------- C14 ----------------------------------- *)

(* C14: every emitted report has exactly one block per entry of the capped *)
(* History, in History order: block 1 is labelled as the initial sender,   *)
(* the last block is labelled as the current sender and is the sighting    *)
(* just appended, every block strictly between carries its 1-based         *)
(* position, and the footer count equals the number of blocks.             *)
C14_ReportBlocksFollowHistory ==
  [][EventStep =>
       LET ev == last'.ev IN
       \A m \in 1..Len(last'.replies) :
         LET report == last'.replies[m].report
             blocks == report.blocks
             kept   == HistoryAfter(ev)
             n      == Len(blocks)
         IN /\ n = Len(kept)
            /\ \A i \in 1..n :
                 /\ blocks[i].user = kept[i].user
                 /\ blocks[i].time = format_time_display(kept[i].time)
            /\ blocks[1].label = FirstLabel
            /\ blocks[n].label = CurrentLabel
            /\ kept[n] = SightingOf(ev)
            /\ \A i \in 2..(n - 1) : blocks[i].label = [tag |-> "KE", n |-> i]
            /\ report.total = n]_vars

C14_Witness ==
  /\ last.kind = "duplicate"
  /\ Len(last.replies) = 1
  /\ LET blocks == last.replies[1].report.blocks IN
     /\ Len(blocks) = 4
     /\ blocks[2].label = [tag |-> "KE", n |-> 2]
     /\ blocks[3].label = [tag |-> "KE", n |-> 3]
     /\ last.replies[1].report.total = 4
     /\ Len(CurrentHistory) = 4

(* ------------------------------- C15 ----------------------------------- *)

(* C15: suppression looks only at the most recent entry of the History:    *)
(* when that entry is from another sender than the new message, the repeat *)
(* is appended and reported, whatever the earlier entries of the History   *)
(* and however recent they are.                                            *)
C15_OtherSenderLastIsReported ==
  [][EventStep =>
       LET ev == last'.ev IN
       (/\ ev.from_user # NoUser
        /\ ~TooShort(Strip(ev.text))
        /\ Known(ev)
        /\ LastOf(PriorHistory(ev)).uid # ev.from_user.id)
       => /\ last'.kind = "duplicate"
          /\ LastOf(HistoryAfter(ev)) = SightingOf(ev)
          /\ Len(last'.replies) = 1]_vars

(* ------------------------------- C16 ----------------------------------- *)

(* C16: in every reachable state, right after startup rehydration          *)
(* included, each (chat, MessageKey) pair has at most one History and      *)
(* every existing History holds at least 1 and at most 10 entries.         *)
C16_OneBoundedHistoryPerKey ==
  \A c \in DOMAIN group_messages :
    /\ \A k1, k2 \in DOMAIN group_messages[c] :
         Lower(Strip(k1)) = Lower(Strip(k2)) => k1 = k2
    /\ \A k \in DOMAIN group_messages[c] :
         /\ Len(group_messages[c][k]) >= 1
         /\ Len(group_messages[c][k]) <= HistoryCap

(* ------------------------------- C17 ----------------------------------- *)

(* C17: a suppressed sighting is never part of any History, in any         *)
(* reachable state, states reached after a restart that rehydrates the     *)
(* Histories from the backup included (so it can be a block of no report). *)
C17_SuppressedSightingInNoHistory ==
  last.kind = "suppressed" =>
    \A k \in DOMAIN group_messages[last.ev.chat_id] :
      \A i \in 1..Len(group_messages[last.ev.chat_id][k]) :
        LET e == group_messages[last.ev.chat_id][k][i] IN
        ~(e.uid = last.ev.from_user.id /\ e.time = last.stamp)

(* ------------------------------- C18 ----------------------------------- *)

Labelled(blocks, label) == { i \in 1..Len(blocks) : blocks[i].label = label }

(* C18: every report ever emitted is rendered from a History of at least   *)
(* 2 and at most 10 entries, and so carries exactly one block labelled as  *)
(* the initial sender and exactly one labelled as the current sender, for  *)
(* two distinct entries; no report is rendered from one entry.             *)
C18_ReportHasTwoToTenEntries ==
  [][EventStep =>
       \A m \in 1..Len(last'.replies) :
         LET blocks == last'.replies[m].report.blocks
             n      == Len(blocks)
         IN /\ n >= 2
            /\ n <= HistoryCap
            /\ n = Len(HistoryAfter(last'.ev))
            /\ Labelled(blocks, FirstLabel) = {1}
            /\ Labelled(blocks, CurrentLabel) = {n}]_vars

C18_Witness ==
  /\ last.kind = "duplicate"
  /\ nrestarts = 1
  /\ Len(rehydrated) > HistoryCap
  /\ Len(last.replies) = 1
  /\ Len(last.replies[1].report.blocks) = HistoryCap
  /\ Len(CurrentHistory) = HistoryCap
  /\ last.stamp > rehydrated[Len(rehydrated)].timestamp

(* ------------------------------- C19 ----------------------------------- *)

RepeatsSuppressed(ev) ==
  /\ last.kind = "suppressed"
  /\ ev.from_user = last.ev.from_user
  /\ ev.chat_id = last.ev.chat_id
  /\ KeyOf(ev) = KeyOf(last.ev)

(* C19: a suppressed sighting does not restart the 300-second window: when *)
(* the sender of a suppressed message repeats the key, the window is still *)
(* measured from the recorded sighting the suppressed one was compared     *)
(* with, so the repeat is suppressed below 300 seconds from that sighting  *)
(* and appended and reported from 300 seconds on.                          *)
C19_SuppressedDoesNotRestartWindow ==
  [][EventStep =>
       LET ev == last'.ev IN
       RepeatsSuppressed(ev) =>
         IF Stamp - last.since[1] < SuppressWindow
         THEN last'.kind = "suppressed"
         ELSE /\ last'.kind = "duplicate"
              /\ LastOf(HistoryAfter(ev)) = SightingOf(ev)
              /\ Len(last'.replies) = 1]_vars

====
